---- MODULE Spec2Model ----
(***************************************************************************)
(* Emby.MCP: the windowed delivery of search results.                      *)
(*                                                                         *)
(* The model follows src/emby_mcp_server.py: the lifespan context          *)
(* (auth_context) holds the window configuration, the library selection    *)
(* and the single slot 'search_item_chunking'; the tools search_for_item   *)
(* and retrieve_next_search_chunk fill and drain that slot.                *)
(*                                                                         *)
(* Python dicts are functions from key strings to values; the empty dict   *)
(* is the function with the empty domain.  A value produced by json.dumps  *)
(* is a pair of the document and the number of times it was encoded.       *)
(***************************************************************************)
EXTENDS Integers, Sequences, FiniteSets, TLC

\* ---------------------------------------------------------------- bounds
\* longest item list the catalog returns
MaxItems == 4
\* largest numeric LLM_MAX_ITEMS setting tried
MaxWindow == 3
\* number of searches that reach the catalog successfully in one run
MaxSearches == 2
\* number of different catalogs (result lists with different records)
NumCatalogs == 2
\* largest control value, and longest item list, of a slot content tried
MaxField == 2

\* ------------------------------------------------------------ python dicts
EmptyDict == [k \in {} |-> 0]

Has(d, k) == k \in DOMAIN d

SetKey(d, k, v) == [x \in (DOMAIN d) \cup {k} |-> IF x = k THEN v ELSE d[x]]

\* ------------------------------------------------------ the environment
\* os.getenv("LLM_MAX_ITEMS"): None when the variable is not set, otherwise
\* the text of the variable.
EnvUnset == [kind |-> "unset", num |-> 0]

EnvText == [kind |-> "text", num |-> 0]

EnvDigits(n) == [kind |-> "digits", num |-> n]

EnvValues == {EnvUnset, EnvText} \cup {EnvDigits(n) : n \in (0 - 1)..MaxWindow}

\* int(x) of Python: the number for a text of digits, TypeError for None,
\* ValueError for any other text.
PyInt(v) ==
    CASE v.kind = "digits" -> [exc |-> "", val |-> v.num]
      [] v.kind = "unset"  -> [exc |-> "TypeError", val |-> 0]
      [] OTHER             -> [exc |-> "ValueError", val |-> 0]

\* slip: one token generated when the process starts and used for every search
Uuid4Fixed(n) == "uuid-0"

\* str(uuid.uuid4()): the n-th token generated by this process
Uuid4(n) == "uuid-" \o ToString(n)

\* ------------------------------------------------------------ the catalog
\* The records of catalog c: the n first matches, in the server's order.
CatalogItems(c, n) == [i \in 1..n |-> 100 * c + i]

ItemLists == {CatalogItems(c, n) : c \in 1..NumCatalogs, n \in 0..MaxItems}

ServerLibraries ==
    << [name |-> "Music", id |-> "L1", type |-> "music"],
       [name |-> "Films", id |-> "L2", type |-> "movies"] >>

\* str.lower() on the names that occur
Lower(s) ==
    CASE s = "Music" -> "music"
      [] s = "MUSIC" -> "music"
      [] s = "Films" -> "films"
      [] OTHER       -> s

LibraryNames == {"", "music", "MUSIC", "Films", "Radio"}

\* ------------------------------------------------------------- responses
\* json.dumps(x): one more level of encoding around the same document
JsonDumps(x) == [depth |-> x.depth + 1, doc |-> x.doc]

\* a Python object that has not been encoded
PyObj(d) == [depth |-> 0, doc |-> d]

Returned(o, j) == [op |-> o, exc |-> "", depth |-> j.depth, doc |-> j.doc, text |-> ""]

ReturnedText(o, t) == [op |-> o, exc |-> "", depth |-> 0, doc |-> EmptyDict, text |-> t]

Raised(o, e) == [op |-> o, exc |-> e, depth |-> 0, doc |-> EmptyDict, text |-> ""]

\* the 'Success' of select_library, kept with the library name it was called
\* with (the error texts tell the name as far as the outcome depends on it)
SelectReturned(library_name, t) ==
    ("arg" :> library_name) @@ ReturnedText("select", t)

NoResponse == [op |-> "none", exc |-> "", depth |-> 0, doc |-> EmptyDict, text |-> ""]

VARIABLES
    max_chunk_size,        \* auth_context['max_chunk_size']
    available_libraries,   \* auth_context['available_libraries']
    current_library,       \* auth_context['current_library']
    search_item_chunking,  \* auth_context['search_item_chunking'], the slot
    uuid_count,            \* number of uuid4 tokens generated so far
    response,              \* what the latest tool call gave its caller
    read_slot,             \* the slot as the latest retrieve_next_search_chunk read it
    source,                \* item list of the latest search that produced one
    source_id,             \* search_id generated by that search
    made_id,               \* search_id generated by the latest search call ("" if none)
    replaced,              \* the latest search that produced a list found a session stored
    delivered,             \* items of the pages returned since that search, concatenated
    pages,                 \* number of pages returned since that search
    seen_ids,              \* the search_id of every page returned, with the search it belongs to
    queries,               \* catalog queries made by the latest search call
    inflight,              \* a retrieve_next_search_chunk call between its read and its write
    raced                  \* a search that ran while a call was in flight, and the slot it left

vars == << max_chunk_size, available_libraries, current_library,
           search_item_chunking, uuid_count, response, read_slot, source,
           source_id, made_id, replaced, delivered, pages, seen_ids, queries,
           inflight, raced >>

history == << read_slot, source, source_id, made_id, replaced, delivered, pages,
              seen_ids, queries, inflight, raced >>

\* ------------------------------------------ retrieve_next_search_chunk
\* The document of a page (lines 514-521, 539-546, 558-565)
ChunkView(search_id, total, size, number, more, page) ==
    [ search_id |-> search_id,
      total_number_of_items |-> total,
      chunk_size |-> size,
      chunk_number |-> number,
      more_chunks_available |-> more,
      items |-> page ]

\* slip: the terminal response written as a page with zeroed control data
NoSessionDocumentZeroed == ChunkView("", 0, 0, 0, FALSE, << >>)

\* slip: the terminal response still names a search
NoSessionDocumentStale == [search_id |-> Uuid4(1)]

\* what the call returns when the slot is empty or lacks control data
NoSessionDocument == EmptyDict

\* slip: the first index taken as one-based
ChunkStartOneBased(chunk_number, chunk_size) == chunk_number * chunk_size + 1

\* zero-based index of the first item of the next page
ChunkStart(chunk_number, chunk_size) == chunk_number * chunk_size

\* slip: a page that ends exactly at the end of the list is not seen as the last
MoreChunksInclusive(remaining_items, chunk_size) == remaining_items >= chunk_size

\* slip: the items of the page itself counted as remaining
MoreChunksNonEmpty(remaining_items, chunk_size) == remaining_items > 0

\* whether pages remain after the one that starts at chunk_start
MoreChunks(remaining_items, chunk_size) == remaining_items > chunk_size

\* one-based index of the last item of the page
ChunkEnd(chunk_start, remaining_items, chunk_size) ==
    IF MoreChunks(remaining_items, chunk_size)
    THEN chunk_start + chunk_size
    ELSE chunk_start + remaining_items

\* slip: the nominal window reported for every page
PageSizeNominal(remaining_items, chunk_size) == chunk_size

\* number of items reported for the page
PageSize(remaining_items, chunk_size) ==
    IF MoreChunks(remaining_items, chunk_size) THEN chunk_size ELSE remaining_items

\* items[chunk_start], ..., items[chunk_end - 1] of the zero-based list
ChunkItems(items, chunk_start, chunk_end) ==
    [i \in 1..(chunk_end - chunk_start) |-> items[chunk_start + i]]

\* slip: the counter incremented twice
AdvanceTwice(chunk_number) == chunk_number + 2

\* the reported (one-based) number of the page
Advance(chunk_number) == chunk_number + 1

\* slip: the session is kept when its last page has been extracted
SlotAfterPageKept(ctx, more_chunks, chunk_number) ==
    SetKey(SetKey(ctx, "more_chunks_available", more_chunks), "chunk_number", chunk_number)

\* slip: the incremented counter is not written back
SlotAfterPageNotAdvanced(ctx, more_chunks, chunk_number) ==
    IF more_chunks
    THEN SetKey(ctx, "more_chunks_available", TRUE)
    ELSE EmptyDict

\* slip: the counter is incremented once more when it is written back
SlotAfterPageOneAhead(ctx, more_chunks, chunk_number) ==
    IF more_chunks
    THEN SetKey(SetKey(ctx, "more_chunks_available", TRUE),
                "chunk_number", chunk_number + 1)
    ELSE EmptyDict

\* slip: the counter is written into chunk_size as well
SlotAfterPageSizeWritten(ctx, more_chunks, chunk_number) ==
    IF more_chunks
    THEN SetKey(SetKey(SetKey(ctx, "more_chunks_available", TRUE),
                       "chunk_number", chunk_number), "chunk_size", chunk_number)
    ELSE EmptyDict

\* the slot after a page was extracted
SlotAfterPage(ctx, more_chunks, chunk_number) ==
    IF more_chunks
    THEN SetKey(SetKey(ctx, "more_chunks_available", TRUE), "chunk_number", chunk_number)
    ELSE EmptyDict

\* the page returned for a session with bad control data (lines 514-521)
InvalidView(search_id) == ChunkView(search_id, 0, 0, 0, FALSE, << >>)

\* slip: the branch above copied for the soft error
SoftErrorViewZeroed(search_id, total_items, chunk_number) ==
    ChunkView(search_id, 0, 0, 0, FALSE, << >>)

\* the page returned when no item remains (lines 539-546)
SoftErrorView(search_id, total_items, chunk_number) ==
    ChunkView(search_id, total_items, 0, chunk_number, FALSE, << >>)

\* What one call decides from the slot ctx it read at line 484: the write it
\* will make to the slot ("none", "clear" or "page", the latter with the flag
\* and counter of lines 553-557), the exception it raises ("" when it
\* returns) and the JSON text it returns.
NextChunkPlan(ctx) ==
    IF DOMAIN ctx = {}
    THEN [write |-> "none", more |-> FALSE, number |-> 0, exc |-> "",
          ret |-> JsonDumps(PyObj(NoSessionDocument))]
    ELSE
      LET items == IF Has(ctx, "items") THEN ctx.items ELSE << >>
          search_id == IF Has(ctx, "search_id") THEN ctx.search_id ELSE ""
      IN
      IF ~Has(ctx, "total_number_of_items") \/ ~Has(ctx, "chunk_size")
            \/ ~Has(ctx, "chunk_number")
      THEN [write |-> "clear", more |-> FALSE, number |-> 0, exc |-> "",
            ret |-> JsonDumps(PyObj(NoSessionDocument))]
      ELSE
        LET total_items == ctx.total_number_of_items
            chunk_size == ctx.chunk_size
            chunk_number == ctx.chunk_number
            chunk_start == ChunkStart(chunk_number, chunk_size)
            remaining_items == total_items - chunk_start
            chunk_end == ChunkEnd(chunk_start, remaining_items, chunk_size)
            more_chunks == MoreChunks(remaining_items, chunk_size)
        IN
        IF total_items <= 0 \/ Len(items) <= 0 \/ chunk_size <= 0 \/ chunk_number < 0
        THEN [write |-> "clear", more |-> FALSE, number |-> 0, exc |-> "",
              ret |-> JsonDumps(PyObj(InvalidView(search_id)))]
        ELSE IF ~(remaining_items > 0)
        THEN [write |-> "clear", more |-> FALSE, number |-> 0, exc |-> "",
              ret |-> JsonDumps(PyObj(SoftErrorView(search_id, total_items,
                                                    chunk_number)))]
        ELSE IF chunk_end > Len(items)
        THEN [write |-> "none", more |-> FALSE, number |-> 0, exc |-> "IndexError",
              ret |-> PyObj(EmptyDict)]
        ELSE [write |-> "page", more |-> more_chunks, number |-> Advance(chunk_number),
              exc |-> "",
              ret |-> JsonDumps(PyObj(ChunkView(search_id, total_items,
                          PageSize(remaining_items, chunk_size),
                          Advance(chunk_number), more_chunks,
                          ChunkItems(items, chunk_start, chunk_end))))]

\* The write of a call to the slot as it is when the write is made: the
\* assignments go through auth_context['search_item_chunking'], whatever
\* dictionary is stored there by then.
ApplyWrite(slot, plan) ==
    CASE plan.write = "clear" -> EmptyDict
      [] plan.write = "page"  -> SlotAfterPage(slot, plan.more, plan.number)
      [] OTHER                -> slot

\* One call on the slot ctx, run without interruption: the slot it leaves,
\* the exception it raises ("" when it returns) and the JSON text it returns.
NextChunkCall(ctx) ==
    LET plan == NextChunkPlan(ctx) IN
    [ctx |-> ApplyWrite(ctx, plan), exc |-> plan.exc, ret |-> plan.ret]

\* the items a response hands to the caller
ItemsOf(doc) == IF Has(doc, "items") THEN doc.items ELSE << >>

\* a response that is a page of results
IsPage(doc) == Has(doc, "items")

\* the search_id a returned page shows, tagged with the number of the search
\* whose results are being delivered
SeenIn(doc, search) ==
    IF IsPage(doc) THEN {[search |-> search, id |-> doc.search_id]} ELSE {}

\* no call in flight
Idle == [active |-> FALSE, read |-> EmptyDict, plan |-> NextChunkPlan(EmptyDict)]

\* no search has run across a call in flight
NotRaced == [active |-> FALSE, split |-> FALSE, slot |-> EmptyDict]

\* tool retrieve_next_search_chunk
RetrieveNextSearchChunk ==
    LET r == NextChunkCall(search_item_chunking) IN
    /\ search_item_chunking' = r.ctx
    /\ response' = IF r.exc = "" THEN Returned("next", r.ret) ELSE Raised("next", r.exc)
    /\ read_slot' = search_item_chunking
    /\ delivered' = delivered \o ItemsOf(r.ret.doc)
    /\ pages' = IF IsPage(r.ret.doc) THEN pages + 1 ELSE pages
    /\ seen_ids' = seen_ids \cup SeenIn(r.ret.doc, uuid_count)
    /\ raced' = NotRaced
    /\ UNCHANGED << max_chunk_size, available_libraries, current_library,
                    uuid_count, source, source_id, made_id, replaced, queries,
                    inflight >>

\* ------------------------------------------------------- library tools
\* what get_library_list can give: an ApiException, no library, the libraries
LibraryFetches == {"fail", "empty", "full"}

FetchedLibraries(fetch) == IF fetch = "full" THEN ServerLibraries ELSE << >>

\* slip: the names compared as they are written
MatchingLibrariesExact(available, name) ==
    {i \in 1..Len(available) : available[i].name = name}

\* set_current_library: the first library whose name matches, ignoring case
MatchingLibraries(available, name) ==
    {i \in 1..Len(available) : Lower(available[i].name) = Lower(name)}

SetCurrentLibrary(available, name) ==
    IF name # ""
    THEN IF Len(available) > 0
         THEN LET m == MatchingLibraries(available, name) IN
              IF m # {}
              THEN [success |-> TRUE, error |-> "",
                    library |-> available[CHOOSE i \in m : \A j \in m : i <= j]]
              ELSE [success |-> FALSE, error |-> "Library not found: " \o name,
                    library |-> EmptyDict]
         ELSE [success |-> FALSE, error |-> "No libraries are available.",
               library |-> EmptyDict]
    ELSE [success |-> FALSE, error |-> "No library name was supplied.",
          library |-> EmptyDict]

\* tool retrieve_library_list
RetrieveLibraryList ==
    \E fetch \in LibraryFetches :
        /\ available_libraries' = FetchedLibraries(fetch)
        /\ response' = IF fetch = "fail"
                       THEN ReturnedText("libraries", "ERROR: failed to retrieve library list")
                       ELSE ReturnedText("libraries", "list")
        /\ UNCHANGED << max_chunk_size, current_library, search_item_chunking,
                        uuid_count, history >>

\* the text of line 272
NoLibrariesText ==
    "ERROR: No available libraries found. "
        \o "Use tool retrieve_library_list to obtain a list of libraries."

\* tool select_library
SelectLibrary ==
    \E library_name \in LibraryNames :
    \E fetch \in IF Len(available_libraries) = 0 THEN LibraryFetches ELSE {"cached"} :
        LET available == IF Len(available_libraries) = 0
                         THEN FetchedLibraries(fetch)
                         ELSE available_libraries
            result == SetCurrentLibrary(available, library_name)
        IN
        /\ available_libraries' = available
        /\ current_library' = IF Len(available) > 0 /\ result.success
                              THEN result.library
                              ELSE current_library
        /\ response' = IF Len(available) > 0
                       THEN IF result.success
                            THEN SelectReturned(library_name, "Success")
                            ELSE ReturnedText("select", "ERROR: " \o result.error)
                       ELSE ReturnedText("select", NoLibrariesText)
        /\ UNCHANGED << max_chunk_size, search_item_chunking, uuid_count, history >>

\* ------------------------------------------------------ search_for_item
\* what get_items can give: an ApiException, or the list of matching items
CatalogAnswers ==
    {[success |-> FALSE, items |-> << >>, error |-> "ApiException"]}
        \cup {[success |-> TRUE, items |-> l, error |-> ""] : l \in ItemLists}

\* slip: a failed query is tried once more
QueriesMadeRetry(answer) == IF answer.success THEN 1 ELSE 2

\* number of requests get_items sends to the server for one call (line 415)
QueriesMade(answer) == 1

\* the document of a failed query (lines 434-436)
ErrorDocument(answer) ==
    [error |-> "ERROR: failed to retrieve item list because: " \o answer.error]

\* slip: a window of zero taken as a window
SplitsNonNegative(window, total_items) == window >= 0 /\ window < total_items

\* more items than one page holds (line 420)
Splits(window, total_items) == window > 0 /\ window < total_items

\* chunk_size of the dictionary built for a search (line 416)
FirstChunkSize(window, total_items) ==
    IF window < total_items THEN window ELSE total_items

\* the dictionary built for a search (lines 412-418)
SearchResults(search_id, window, items) ==
    ChunkView(search_id, Len(items), FirstChunkSize(window, Len(items)), 0, FALSE, items)

\* the session a splitting search stores (lines 422-423)
StoredSession(search_id, window, items) ==
    [SearchResults(search_id, window, items) EXCEPT !.more_chunks_available = TRUE]

\* slip: a session that is still stored is kept instead of being replaced
SessionToStoreKeepsOld(ctx, search_id, window, items) ==
    IF ctx # EmptyDict THEN ctx ELSE StoredSession(search_id, window, items)

\* what line 423 puts in the slot: the new session, whatever ctx held before
SessionToStore(ctx, search_id, window, items) ==
    StoredSession(search_id, window, items)

\* the page of a search whose results fit (lines 428-429)
SinglePage(search_id, window, items) ==
    [SearchResults(search_id, window, items) EXCEPT !.chunk_number = 1]

\* slip: the slot is cleared only by a search that stores a new session
SlotAfterSinglePageKept(ctx) == ctx

\* the slot as a search leaves it when its results fit in one page (line 411)
SlotAfterSinglePage(ctx) == EmptyDict

\* the slot as a search leaves it when the catalog query failed
SlotAfterFailedQuery(ctx) == ctx

\* One call: ctx is the slot, env the window setting, library the selected
\* library, answer what the catalog gives and search_id the next uuid4.
\* 'made' tells whether the uuid4 was generated, 'stored' is the session the
\* call stored before it delegated (empty if it stored none).
SearchCall(ctx, env, library, answer, search_id) ==
    LET window == PyInt(env) IN
    IF window.exc # ""
    THEN [ctx |-> ctx, exc |-> window.exc, ret |-> PyObj(EmptyDict),
          made |-> FALSE, stored |-> EmptyDict, queries |-> 0]
    ELSE IF ~Has(library, "id")
    THEN [ctx |-> ctx, exc |-> "KeyError", ret |-> PyObj(EmptyDict),
          made |-> FALSE, stored |-> EmptyDict, queries |-> 0]
    ELSE IF ~answer.success
    THEN [ctx |-> SlotAfterFailedQuery(ctx), exc |-> "",
          ret |-> JsonDumps(PyObj(ErrorDocument(answer))),
          made |-> FALSE, stored |-> EmptyDict, queries |-> QueriesMade(answer)]
    ELSE IF Splits(window.val, Len(answer.items))
    THEN LET session == SessionToStore(ctx, search_id, window.val, answer.items)
             first == NextChunkCall(session)
         IN [ctx |-> first.ctx, exc |-> first.exc,
             ret |-> JsonDumps(first.ret), made |-> TRUE, stored |-> session,
             queries |-> QueriesMade(answer)]
    ELSE [ctx |-> SlotAfterSinglePage(ctx), exc |-> "",
          ret |-> JsonDumps(PyObj(SinglePage(search_id, window.val, answer.items))),
          made |-> TRUE, stored |-> EmptyDict, queries |-> QueriesMade(answer)]

\* tool search_for_item
SearchForItem ==
    \E answer \in CatalogAnswers :
        LET r == SearchCall(search_item_chunking, max_chunk_size, current_library,
                            answer, Uuid4(uuid_count + 1))
        IN
        /\ r.made => uuid_count < MaxSearches
        /\ search_item_chunking' = r.ctx
        /\ uuid_count' = IF r.made THEN uuid_count + 1 ELSE uuid_count
        /\ response' = IF r.exc = "" THEN Returned("search", r.ret)
                                     ELSE Raised("search", r.exc)
        /\ made_id' = IF r.made THEN Uuid4(uuid_count + 1) ELSE ""
        /\ read_slot' = IF r.stored # EmptyDict THEN r.stored ELSE read_slot
        /\ IF r.made
           THEN /\ source' = answer.items
                /\ source_id' = Uuid4(uuid_count + 1)
                /\ replaced' = (search_item_chunking # EmptyDict)
                /\ delivered' = ItemsOf(r.ret.doc)
                /\ pages' = IF IsPage(r.ret.doc) THEN 1 ELSE 0
           ELSE UNCHANGED << source, source_id, replaced, delivered, pages >>
        /\ seen_ids' = IF r.exc = ""
                       THEN seen_ids \cup SeenIn(r.ret.doc, uuid_count')
                       ELSE seen_ids
        /\ queries' = r.queries
        /\ raced' = IF inflight.active
                    THEN [active |-> TRUE, split |-> r.stored # EmptyDict, slot |-> r.ctx]
                    ELSE NotRaced
        /\ UNCHANGED << max_chunk_size, available_libraries, current_library,
                        inflight >>

\* ------------------------------------------------------- the state machine
\* the context app_lifespan yields (lines 139-142) and the empty history
Init ==
    /\ max_chunk_size \in EnvValues
    /\ available_libraries = << >>
    /\ current_library = EmptyDict
    /\ search_item_chunking = EmptyDict
    /\ uuid_count = 0
    /\ response = NoResponse
    /\ read_slot = EmptyDict
    /\ source = << >>
    /\ source_id = ""
    /\ made_id = ""
    /\ replaced = FALSE
    /\ delivered = << >>
    /\ pages = 0
    /\ seen_ids = {}
    /\ queries = 0
    /\ inflight = Idle
    /\ raced = NotRaced

Next ==
    \/ RetrieveLibraryList
    \/ SelectLibrary
    \/ SearchForItem
    \/ RetrieveNextSearchChunk

Spec == Init /\ [][Next]_vars

\* the caller keeps calling retrieve_next_search_chunk
FairSpec == Spec /\ WF_vars(RetrieveNextSearchChunk)

\* ------------------------------------------------- overlapping calls
\* Neither tool takes a lock. When the server runs tool calls on several
\* threads, a retrieve_next_search_chunk call can be suspended between
\* reading the slot (line 484) and writing it (lines 553-557) while another
\* tool call runs.

\* lines 482-552 of a call: the slot is read and the page is computed
\* (a stale write can deliver pages again, so overlapping calls start only
\* while no more than MaxItems pages have been returned)
BeginNextChunk ==
    /\ ~inflight.active
    /\ pages <= MaxItems
    /\ inflight' = [active |-> TRUE, read |-> search_item_chunking,
                    plan |-> NextChunkPlan(search_item_chunking)]
    /\ raced' = NotRaced
    /\ UNCHANGED << max_chunk_size, available_libraries, current_library,
                    search_item_chunking, uuid_count, response, read_slot, source,
                    source_id, made_id, replaced, delivered, pages, seen_ids,
                    queries >>

\* lines 553-565 of that call: the slot is written and the page returned
EndNextChunk ==
    /\ inflight.active
    /\ search_item_chunking' = ApplyWrite(search_item_chunking, inflight.plan)
    /\ response' = IF inflight.plan.exc = ""
                   THEN Returned("next", inflight.plan.ret)
                   ELSE Raised("next", inflight.plan.exc)
    /\ read_slot' = inflight.read
    /\ delivered' = delivered \o ItemsOf(inflight.plan.ret.doc)
    /\ pages' = IF IsPage(inflight.plan.ret.doc) THEN pages + 1 ELSE pages
    /\ seen_ids' = seen_ids \cup SeenIn(inflight.plan.ret.doc, uuid_count)
    /\ inflight' = Idle
    /\ UNCHANGED << max_chunk_size, available_libraries, current_library,
                    uuid_count, source, source_id, made_id, replaced, queries,
                    raced >>

\* the server after select_library has succeeded, with a numeric window
ConcInit ==
    /\ \E w \in 1..MaxWindow : max_chunk_size = EnvDigits(w)
    /\ available_libraries = FetchedLibraries("full")
    /\ \E i \in 1..Len(FetchedLibraries("full")) :
           current_library = FetchedLibraries("full")[i]
    /\ search_item_chunking = EmptyDict
    /\ uuid_count = 0
    /\ response = SelectReturned(current_library.name, "Success")
    /\ read_slot = EmptyDict
    /\ source = << >>
    /\ source_id = ""
    /\ made_id = ""
    /\ replaced = FALSE
    /\ delivered = << >>
    /\ pages = 0
    /\ seen_ids = {}
    /\ queries = 0
    /\ inflight = Idle
    /\ raced = NotRaced

ConcNext ==
    \/ SearchForItem
    \/ RetrieveNextSearchChunk
    \/ BeginNextChunk
    \/ EndNextChunk

ConcSpec == ConcInit /\ [][ConcNext]_vars

\* ------------------------------------- any content of the session slot
\* retrieve_next_search_chunk as a function of what it finds in the slot:
\* the dictionaries with any of the keys of a session, control values from
\* -1 up and item lists from the empty one up.
SlotKeys == {"search_id", "total_number_of_items", "chunk_size", "chunk_number",
             "items", "more_chunks_available"}

Field(keys, k, v) == IF k \in keys THEN k :> v ELSE EmptyDict

SlotContent(keys, total, size, number, length) ==
    Field(keys, "search_id", Uuid4(1))
        @@ Field(keys, "total_number_of_items", total)
        @@ Field(keys, "chunk_size", size)
        @@ Field(keys, "chunk_number", number)
        @@ Field(keys, "items", CatalogItems(1, length))
        @@ Field(keys, "more_chunks_available", TRUE)

SlotInit ==
    /\ max_chunk_size = EnvDigits(1)
    /\ available_libraries = << >>
    /\ current_library = EmptyDict
    /\ \E keys \in SUBSET SlotKeys :
       \E total \in (0 - 1)..MaxField, size \in (0 - 1)..MaxField,
          number \in (0 - 1)..MaxField, length \in 0..MaxField :
           search_item_chunking = SlotContent(keys, total, size, number, length)
    /\ uuid_count = 1
    /\ response = NoResponse
    /\ read_slot = EmptyDict
    /\ source = << >>
    /\ source_id = ""
    /\ made_id = ""
    /\ replaced = FALSE
    /\ delivered = << >>
    /\ pages = 0
    /\ seen_ids = {}
    /\ queries = 0
    /\ inflight = Idle
    /\ raced = NotRaced

SlotNext == RetrieveNextSearchChunk

SlotSpec == SlotInit /\ [][SlotNext]_vars

\* --------------------------------------------- every way to an empty slot
\* Searches and retrieve_next_search_chunk calls made one after the other,
\* from a started server with a library selected as well as from any
\* content of the slot.
HistoryInit == ConcInit \/ SlotInit

HistoryNext ==
    \/ SearchForItem
    \/ RetrieveNextSearchChunk

HistorySpec == HistoryInit /\ [][HistoryNext]_vars

TypeOK ==
    /\ max_chunk_size \in EnvValues
    /\ uuid_count \in 0..MaxSearches
    /\ pages \in Nat
    /\ replaced \in BOOLEAN

\* =================================================================== claims
\* the numeric window of this process (meaningful when int() succeeds)
Window == PyInt(max_chunk_size).val

WindowIsNumber == PyInt(max_chunk_size).exc = ""

\* ceil(n / w) for w > 0
Ceil(n, w) == (n + w - 1) \div w

\* the latest call was search or next_chunk and returned a page
PageReturned ==
    /\ response.op \in {"search", "next"}
    /\ response.exc = ""
    /\ IsPage(response.doc)

\* the latest search that produced a list had to split it
SplitSearch == WindowIsNumber /\ 0 < Window /\ Window < Len(source)

\* the page of the latest call was cut from a stored session
PageFromSession ==
    /\ PageReturned
    /\ response.op = "next" \/ SplitSearch

\* C1 (partition correctness): for 0 < W < N the items of the pages returned
\* by the search and by the following next_chunk calls are, concatenated, a
\* prefix of the original list, and the whole list once the first page with
\* more_chunks_available = false has been returned.
PartitionCorrect ==
    (PageReturned /\ SplitSearch) =>
        /\ Len(delivered) <= Len(source)
        /\ delivered = SubSeq(source, 1, Len(delivered))
        /\ ~response.doc.more_chunks_available => delivered = source

PartitionWitness ==
    /\ PageReturned /\ SplitSearch
    /\ response.op = "next"
    /\ ~response.doc.more_chunks_available
    /\ pages >= 3
    /\ delivered = source

\* C2 (termination): a session of N items with window W (0 < W < N) is
\* exhausted by exactly ceil(N / W) page deliveries, every delivery before
\* the last reports more_chunks_available = true and the last false, and a
\* caller that keeps calling next_chunk reaches the empty slot.
Termination ==
    /\ []((PageReturned /\ SplitSearch) =>
            /\ pages <= Ceil(Len(source), Window)
            /\ response.doc.more_chunks_available <=> pages < Ceil(Len(source), Window)
            /\ pages = Ceil(Len(source), Window) => search_item_chunking = EmptyDict)
    /\ (search_item_chunking # EmptyDict) ~> (search_item_chunking = EmptyDict)

TerminationWitness ==
    /\ PageReturned /\ SplitSearch
    /\ response.op = "next"
    /\ pages = Ceil(Len(source), Window)
    /\ pages >= 2
    /\ Len(source) % Window # 0
    /\ search_item_chunking = EmptyDict

\* C3 (single session): when a search that produced a list replaced a stored
\* session, the slot holds the new session only and every page a later
\* next_chunk returns is cut from the new list, carries the new search_id and
\* total and continues the numbering of the new session.
SingleSession ==
    /\ (replaced /\ search_item_chunking # EmptyDict) =>
          /\ search_item_chunking.search_id = source_id
          /\ search_item_chunking.items = source
    /\ (replaced /\ PageReturned /\ response.op = "next") =>
          /\ response.doc.search_id = source_id
          /\ response.doc.total_number_of_items = Len(source)
          /\ response.doc.chunk_number = pages
          /\ Len(delivered) <= Len(source)
          /\ response.doc.items =
                SubSeq(source, Len(delivered) - Len(response.doc.items) + 1, Len(delivered))

SingleSessionWitness ==
    /\ replaced
    /\ PageReturned
    /\ response.op = "next"
    /\ response.doc.chunk_number = 2
    /\ source_id = Uuid4(2)

\* C4 (unconditional discard): after any search call that returned, the slot
\* is empty or holds the session this call created, never an earlier one.
SearchDiscardsEarlier ==
    (response.op = "search" /\ response.exc = "") =>
        \/ search_item_chunking = EmptyDict
        \/ /\ made_id # ""
           /\ search_item_chunking.search_id = made_id

\* C5 (fit in one page): with a library selected and the catalog answering,
\* a search whose N items fit the window, or whose window is unset or zero,
\* returns all N items in one page with more_chunks_available = false and
\* keeps no session, so the next next_chunk gives the no-session response.
FitsInOnePage ==
    ( /\ response.op = "search"
      /\ Has(current_library, "id")
      /\ ~Has(response.doc, "error")
      /\ \/ max_chunk_size = EnvUnset
         \/ WindowIsNumber /\ (Window = 0 \/ (made_id # "" /\ Len(source) <= Window)) )
    =>  /\ response.exc = ""
        /\ IsPage(response.doc)
        /\ response.doc.items = source
        /\ ~response.doc.more_chunks_available
        /\ search_item_chunking = EmptyDict
        /\ NextChunkCall(search_item_chunking).ret.doc = NoSessionDocument

\* the last page of the latest search that produced items has been delivered
Exhausted == source_id # "" /\ Len(source) > 0 /\ delivered = source

\* C6 (idempotent terminal state): once the last page of a session has been
\* delivered the slot is empty, and every further next_chunk returns,
\* without raising, the same document without fields and leaves the slot
\* empty and the history of delivered pages as it was.
TerminalIdempotent ==
    /\ [](Exhausted => search_item_chunking = EmptyDict)
    /\ [][ (Exhausted /\ response'.op = "next") =>
              /\ search_item_chunking' = EmptyDict
              /\ response'.exc = ""
              /\ response'.depth = 1
              /\ response'.doc = EmptyDict
              /\ delivered' = delivered
              /\ pages' = pages ]_vars

TerminalWitness ==
    /\ Exhausted
    /\ pages >= 2
    /\ response.op = "next"
    /\ response.exc = ""
    /\ read_slot = EmptyDict
    /\ search_item_chunking = EmptyDict

\* C7 as claimed: next_chunk on an empty slot returns a document with the six
\* fields, zeroed.
NoSessionFullView ==
    (response.op = "next" /\ read_slot = EmptyDict) =>
        response.doc = ChunkView("", 0, 0, 0, FALSE, << >>)

\* C7 (amended): next_chunk on an empty slot returns, without raising, the
\* once-encoded empty document: none of the six fields is present.
NoSessionEmptyDocument ==
    (response.op = "next" /\ read_slot = EmptyDict) =>
        /\ response.exc = ""
        /\ response.depth = 1
        /\ DOMAIN response.doc = {}
        /\ search_item_chunking = EmptyDict

NoSessionWitness ==
    /\ response.op = "next"
    /\ read_slot = EmptyDict
    /\ uuid_count = 0
    /\ Has(current_library, "id")

\* C8 (one-based numbering): the k-th page returned since the search reports
\* chunk_number = k; a page cut from a stored session reports the stored
\* chunk_number it read plus 1, and a session that stays stored holds that
\* same number.
PageNumbering ==
    PageReturned =>
        /\ response.doc.chunk_number = pages
        /\ PageFromSession =>
              /\ response.doc.chunk_number = read_slot.chunk_number + 1
              /\ search_item_chunking # EmptyDict =>
                    search_item_chunking.chunk_number = read_slot.chunk_number + 1

PageNumberingWitness ==
    /\ PageFromSession
    /\ response.op = "next"
    /\ response.doc.chunk_number = 3
    /\ read_slot.chunk_number = 2
    /\ search_item_chunking # EmptyDict

\* C9 (page sizes): a page cut from a session that was read with
\* remaining = total - chunk_number * chunk_size has W items, chunk_size = W
\* and more_chunks_available = true when remaining > W, and 'remaining' items,
\* chunk_size = remaining and more_chunks_available = false when
\* 0 < remaining <= W; no page is empty, so a list of a multiple of W items
\* ends with a full page.
PageSizes ==
    PageFromSession =>
        LET w == read_slot.chunk_size
            total == read_slot.total_number_of_items
            remaining == total - read_slot.chunk_number * w
            doc == response.doc
        IN  /\ w = Window
            /\ remaining > 0
            /\ Len(doc.items) > 0
            /\ remaining > w =>
                  /\ Len(doc.items) = w
                  /\ doc.chunk_size = w
                  /\ doc.more_chunks_available
            /\ remaining <= w =>
                  /\ Len(doc.items) = remaining
                  /\ doc.chunk_size = remaining
                  /\ ~doc.more_chunks_available
            /\ (~doc.more_chunks_available /\ total % w = 0) => Len(doc.items) = w

PageSizesWitness ==
    /\ PageFromSession
    /\ response.op = "next"
    /\ ~response.doc.more_chunks_available
    /\ Window >= 2
    /\ Len(source) % Window = 0
    /\ Len(response.doc.items) = Window

\* C10 (session lifetime): after a call that returned a page a session is
\* stored exactly if the page has more_chunks_available = true; then the
\* stored chunk_number is the one read plus 1 (1 after the page of the
\* search) and the stored flag is true.
SessionLifetime ==
    PageReturned =>
        /\ search_item_chunking # EmptyDict <=> response.doc.more_chunks_available
        /\ response.doc.more_chunks_available =>
              /\ search_item_chunking.more_chunks_available
              /\ search_item_chunking.chunk_number = read_slot.chunk_number + 1
              /\ response.op = "search" => search_item_chunking.chunk_number = 1

SessionLifetimeWitness ==
    /\ PageReturned
    /\ response.op = "next"
    /\ response.doc.more_chunks_available
    /\ search_item_chunking # EmptyDict
    /\ search_item_chunking.chunk_number = 2

\* the latest call was a search that got past the library lookup and the
\* catalog query (no error document)
SearchAnswered ==
    /\ response.op = "search"
    /\ Has(current_library, "id")
    /\ ~Has(response.doc, "error")

\* C11 (chunk_size is the size of the page): in every page returned by
\* search or next_chunk, whatever the window, chunk_size is not negative and
\* is the number of elements of 'items'.
ChunkSizeIsPageLength ==
    PageReturned =>
        /\ response.doc.chunk_size >= 0
        /\ response.doc.chunk_size = Len(response.doc.items)

\* C12 (single-page fields): a search that finds total > 0 items with the
\* window unset, zero or >= total returns chunk_size = total,
\* chunk_number = 1, more_chunks_available = false and the whole list.
SinglePageFields ==
    ( /\ SearchAnswered
      /\ \/ max_chunk_size = EnvUnset
         \/ /\ WindowIsNumber
            /\ made_id # ""
            /\ Len(source) > 0
            /\ Window = 0 \/ Window >= Len(source) )
    =>  /\ response.exc = ""
        /\ IsPage(response.doc)
        /\ response.doc.chunk_size = Len(source)
        /\ response.doc.chunk_number = 1
        /\ ~response.doc.more_chunks_available
        /\ response.doc.items = source

\* C13 (zero results): a search that matches no item returns, whatever the
\* window setting, total_number_of_items = 0, chunk_size = 0,
\* more_chunks_available = false, items = [] and one and the same
\* chunk_number, and stores no session.
ZeroResults ==
    ( /\ SearchAnswered
      /\ \/ max_chunk_size = EnvUnset
         \/ WindowIsNumber /\ made_id # "" /\ Len(source) = 0 )
    =>  /\ response.exc = ""
        /\ IsPage(response.doc)
        /\ response.doc.total_number_of_items = 0
        /\ response.doc.chunk_size = 0
        /\ response.doc.chunk_number = 1
        /\ ~response.doc.more_chunks_available
        /\ response.doc.items = << >>
        /\ search_item_chunking = EmptyDict

\* C14 (no fatal errors): no call of search or next_chunk raises; each
\* returns a document.
NoException ==
    response.op \in {"search", "next"} =>
        /\ response.exc = ""
        /\ response.depth >= 1

\* C19 (first page returned as-is): the page a splitting search returns is
\* the document of the next_chunk call it delegates to, encoded once like
\* every next_chunk response and like the single-page response.
FirstPageEncodedOnce ==
    (PageReturned /\ response.op = "search") =>
        /\ response.depth = 1
        /\ SplitSearch =>
              Returned("next", NextChunkCall(read_slot).ret) =
                  [response EXCEPT !.op = "next"]

\* C16 (search_id identifies one search): two returned pages carry the same
\* search_id exactly if they belong to the same search; in particular every
\* page of a session carries the search_id of the first page.
SearchIdIdentifies ==
    /\ \A a \in seen_ids : \A b \in seen_ids : (a.id = b.id) <=> (a.search = b.search)
    /\ PageReturned => response.doc.search_id = source_id

SearchIdWitness ==
    /\ PageReturned
    /\ response.op = "next"
    /\ response.doc.chunk_number >= 2
    /\ response.doc.search_id = source_id
    /\ Cardinality(seen_ids) >= 2

\* C18 (upstream failure): a search whose catalog query fails queries the
\* catalog exactly once, returns without raising a document that carries the
\* upstream error, generates no search_id and stores no session (a session
\* in the slot afterwards is one that was there before).
UpstreamFailure ==
    [][ (response'.op = "search" /\ Has(response'.doc, "error")) =>
           /\ queries' = 1
           /\ response'.exc = ""
           /\ response'.depth = 1
           /\ response'.doc =
                 [error |-> "ERROR: failed to retrieve item list because: ApiException"]
           /\ uuid_count' = uuid_count
           /\ made_id' = ""
           /\ search_item_chunking' # EmptyDict =>
                 search_item_chunking' = search_item_chunking ]_vars

UpstreamFailureWitness ==
    /\ response.op = "search"
    /\ Has(response.doc, "error")
    /\ queries = 1
    /\ search_item_chunking = EmptyDict
    /\ uuid_count >= 1

\* a session with the control data retrieve_next_search_chunk asks for
HasControlData(s) ==
    /\ Has(s, "total_number_of_items")
    /\ Has(s, "chunk_size")
    /\ Has(s, "chunk_number")

\* a stored session that is structurally sane
ValidSession(s) ==
    /\ HasControlData(s)
    /\ s.total_number_of_items > 0
    /\ s.chunk_size > 0
    /\ s.chunk_number >= 0
    /\ Has(s, "items")
    /\ Len(s.items) > 0

\* C15 (self-healing validation): next_chunk on a stored session that is
\* structurally invalid clears the slot and returns the empty ChunkView:
\* search_id = "", all counts zero, more_chunks_available = false, items = [].
SelfHealing ==
    ( /\ response.op = "next"
      /\ read_slot # EmptyDict
      /\ ~ValidSession(read_slot) )
    =>  /\ response.exc = ""
        /\ search_item_chunking = EmptyDict
        /\ response.doc = ChunkView("", 0, 0, 0, FALSE, << >>)

\* C20 (soft error): next_chunk on a structurally valid session with
\* chunk_number * chunk_size >= total_number_of_items clears the slot and
\* returns a ChunkView with the stored search_id and total_number_of_items,
\* chunk_size = 0, more_chunks_available = false and items = [].
SoftError ==
    ( /\ response.op = "next"
      /\ ValidSession(read_slot)
      /\ read_slot.chunk_number * read_slot.chunk_size
            >= read_slot.total_number_of_items )
    =>  /\ response.exc = ""
        /\ response.depth = 1
        /\ search_item_chunking = EmptyDict
        /\ IsPage(response.doc)
        /\ Has(read_slot, "search_id") => response.doc.search_id = read_slot.search_id
        /\ response.doc.total_number_of_items = read_slot.total_number_of_items
        /\ response.doc.chunk_size = 0
        /\ ~response.doc.more_chunks_available
        /\ response.doc.items = << >>

SoftErrorWitness ==
    /\ response.op = "next"
    /\ ValidSession(read_slot)
    /\ Has(read_slot, "search_id")
    /\ read_slot.chunk_number = 1
    /\ read_slot.chunk_size = 2
    /\ read_slot.total_number_of_items = 2
    /\ search_item_chunking = EmptyDict
    /\ response.doc.total_number_of_items = 2

\* C17 (a concurrent search wins): when a splitting search ran while a
\* next_chunk call was in flight, then once that call has completed too the
\* slot holds the new session exactly as the search left it.
ConcurrentSearchWins ==
    (raced.active /\ raced.split /\ ~inflight.active) =>
        search_item_chunking = raced.slot

\* C21 (frame of next_chunk): a call that delivers a non-final page changes
\* only chunk_number in the stored session; the stored items,
\* total_number_of_items, search_id and chunk_size (the window W) are those
\* the search stored.
FrameOfNextChunk ==
    (PageFromSession /\ response.doc.more_chunks_available) =>
        /\ search_item_chunking =
              [read_slot EXCEPT !.chunk_number = read_slot.chunk_number + 1]
        /\ search_item_chunking.items = source
        /\ search_item_chunking.total_number_of_items = Len(source)
        /\ search_item_chunking.search_id = source_id
        /\ search_item_chunking.chunk_size = Window

FrameWitness ==
    /\ PageFromSession
    /\ response.op = "next"
    /\ response.doc.more_chunks_available
    /\ response.doc.chunk_number >= 2
    /\ read_slot.chunk_number = 1
    /\ search_item_chunking.chunk_number = 2
    /\ search_item_chunking.items = source

\* the slot holds a session with items still to deliver
Paginating(s) ==
    /\ ValidSession(s)
    /\ Has(s, "search_id")
    /\ Has(s, "more_chunks_available")
    /\ s.more_chunks_available
    /\ s.chunk_number * s.chunk_size < s.total_number_of_items

\* the latest call was a search that had to split its results
SearchSplit == response.op = "search" /\ made_id # "" /\ SplitSearch

\* the session in the slot was not there before the step
NewSession ==
    /\ search_item_chunking' # EmptyDict
    /\ IF search_item_chunking = EmptyDict
       THEN TRUE
       ELSE search_item_chunking'.search_id # search_item_chunking.search_id

\* C22 (state-machine shape): the slot is always either empty or holds a
\* session; a session appears in it only through a search with 0 < W < N; a
\* search whose results fit in one page or are empty leaves it empty; and
\* next_chunk on the empty slot leaves it empty.
StateMachineShape ==
    /\ [](search_item_chunking = EmptyDict \/ Paginating(search_item_chunking))
    /\ []((response.op = "search" /\ ~Has(response.doc, "error") /\ ~SearchSplit)
             => search_item_chunking = EmptyDict)
    /\ [][ NewSession => SearchSplit' ]_vars
    /\ [][ (response'.op = "next" /\ search_item_chunking = EmptyDict)
              => search_item_chunking' = EmptyDict ]_vars

StateMachineWitness ==
    /\ SearchSplit
    /\ Paginating(search_item_chunking)
    /\ ~replaced
    /\ uuid_count >= 2

\* C23 (search without a selected library): while no library has been
\* selected, search_for_item returns the error document 'no library is
\* currently selected' without raising, makes no catalog query and leaves
\* the slot as it was (here with a numeric window, so that nothing else fails).
NoLibrarySelected ==
    (response.op = "search" /\ current_library = EmptyDict /\ WindowIsNumber) =>
        /\ response.exc = ""
        /\ response.doc =
              [error |-> "ERROR: no library is currently selected. "
                         \o "Select library using tool select_library"]
        /\ queries = 0
        /\ search_item_chunking = EmptyDict

\* C24 (library selection): select_library returns 'Success' only for a name
\* that equals, ignoring case, the name of an entry of the available list
\* (fetched first when the cached list is empty) and then makes that entry
\* the current library; otherwise it returns an error text and leaves the
\* current library as it was. The slot is left as it was in every case.
LibrarySelection ==
    [][ response'.op = "select" =>
          LET available == available_libraries'
              hits(name) == {i \in 1..Len(available) :
                                Lower(available[i].name) = Lower(name)}
          IN
          /\ search_item_chunking' = search_item_chunking
          /\ Len(available_libraries) > 0 => available = available_libraries
          /\ IF response'.text = "Success"
             THEN /\ response'.arg # ""
                  /\ hits(response'.arg) # {}
                  /\ \E i \in hits(response'.arg) :
                        /\ \A j \in hits(response'.arg) : i <= j
                        /\ current_library' = available[i]
             ELSE /\ current_library' = current_library
                  /\ \/ response'.text = "ERROR: No library name was supplied."
                     \/ /\ response'.text = NoLibrariesText
                        /\ Len(available) = 0
                     \/ \E name \in LibraryNames :
                           /\ response'.text = "ERROR: Library not found: " \o name
                           /\ hits(name) = {} ]_vars

LibrarySelectionWitness ==
    /\ response.op = "select"
    /\ response.text = "Success"
    /\ response.arg = "MUSIC"
    /\ current_library.name = "Music"
    /\ search_item_chunking # EmptyDict

\* C25 (stored-session invariant): a session stored between calls has
\* total_number_of_items = len(items), chunk_size = W with 0 < W < total,
\* more_chunks_available = true, chunk_number >= 1 and
\* chunk_number * chunk_size < total_number_of_items.
StoredSessionInvariant ==
    search_item_chunking # EmptyDict =>
        /\ DOMAIN search_item_chunking = SlotKeys
        /\ search_item_chunking.total_number_of_items
              = Len(search_item_chunking.items)
        /\ WindowIsNumber
        /\ search_item_chunking.chunk_size = Window
        /\ 0 < Window
        /\ Window < search_item_chunking.total_number_of_items
        /\ search_item_chunking.more_chunks_available = TRUE
        /\ search_item_chunking.chunk_number >= 1
        /\ search_item_chunking.chunk_number * search_item_chunking.chunk_size
              < search_item_chunking.total_number_of_items

StoredSessionWitness ==
    /\ search_item_chunking # EmptyDict
    /\ response.op = "next"
    /\ search_item_chunking.chunk_number >= 2
    /\ search_item_chunking.total_number_of_items
          = search_item_chunking.chunk_number * search_item_chunking.chunk_size + 1

\* C26 (stored counter matches the last report): when a search or next_chunk
\* call returns a page with more_chunks_available = true, the chunk_number
\* stored after the call is the chunk_number of that page, and the next page
\* starts at the item of (zero-based) index chunk_number * W.
StoredCounterMatchesReport ==
    (PageReturned /\ response.doc.more_chunks_available) =>
        /\ search_item_chunking # EmptyDict
        /\ search_item_chunking.chunk_number = response.doc.chunk_number
        /\ LET following == NextChunkCall(search_item_chunking).ret.doc IN
           /\ IsPage(following)
           /\ following.items[1] =
                 search_item_chunking.items[response.doc.chunk_number * Window + 1]

StoredCounterWitness ==
    /\ PageReturned
    /\ response.op = "next"
    /\ response.doc.more_chunks_available
    /\ response.doc.chunk_number >= 2
    /\ Window >= 1
    /\ search_item_chunking.chunk_number = response.doc.chunk_number

\* C27 (defensive branches unreachable): with calls made one after the other
\* from the empty slot, every next_chunk call that finds a session finds a
\* structurally sane one with items left and returns a page of at least one
\* item; so does the call a search delegates to for its first page.
DefensiveBranchesUnreachable ==
    /\ (response.op = "next" /\ read_slot # EmptyDict) =>
          /\ ValidSession(read_slot)
          /\ read_slot.chunk_number * read_slot.chunk_size
                < read_slot.total_number_of_items
          /\ PageReturned
          /\ Len(response.doc.items) >= 1
    /\ (response.op = "search" /\ made_id # "" /\ Len(source) > 0) =>
          /\ PageReturned
          /\ Len(response.doc.items) >= 1

DefensiveWitness ==
    /\ response.op = "next"
    /\ read_slot # EmptyDict
    /\ PageReturned
    /\ ~response.doc.more_chunks_available
    /\ Len(response.doc.items) = 1
    /\ read_slot.chunk_size >= 2

\* C28 (overlapping next_chunk calls): when two next_chunk calls on the same
\* session overlap, no page is delivered twice and none is skipped: a page
\* returned right after another page of the same search carries the next
\* chunk_number.
OverlappingCallsSerialized ==
    [][ ( /\ response.op \in {"search", "next"}
          /\ response.exc = ""
          /\ IsPage(response.doc)
          /\ pages' = pages + 1
          /\ response'.op = "next"
          /\ response'.exc = ""
          /\ IsPage(response'.doc)
          /\ response'.doc.search_id = response.doc.search_id )
        => response'.doc.chunk_number = response.doc.chunk_number + 1 ]_vars

====
